---- MODULE Spec2Model ----
(***************************************************************************)
(* Field-value merge engine of the record-merge feature (twenty-server,   *)
(* graphql-query-runner/utils).  A merge call is a pure function of a     *)
(* field type, an ordered sequence of {recordId, value} contributions and *)
(* a priority record id.  The state machine draws one call's arguments in *)
(* Init and applies the merger to them in one step.  A second state       *)
(* machine does the same for isThrottled of the connected-account module. *)
(***************************************************************************)
EXTENDS Integers, Sequences, FiniteSets, TLC

VARIABLES
    fieldType,          \* FieldMetadataType of the merged field
    recordsWithValues,  \* the call's ordered contributions {recordId, value}
    priorityRecordId,   \* the caller-designated priority record
    merger,             \* the function that produced the outcome ("none" before the call)
    outcome,            \* what the call did: pending, returned a value, or threw
    again,              \* what a second call, on the returned value alone, did
    syncStageStartedAt,     \* isThrottled: the stored start of the sync stage
    throttleFailureCount,   \* isThrottled: consecutive throttle failures
    throttleDuration,       \* isThrottled: base pause in milliseconds
    now,                    \* the clock read by new Date()
    throttled               \* what the isThrottled call did

mergeVars == <<fieldType, recordsWithValues, priorityRecordId, merger, outcome, again>>
throttleVars == <<syncStageStartedAt, throttleFailureCount, throttleDuration, now, throttled>>
vars == <<fieldType, recordsWithValues, priorityRecordId, merger, outcome, again,
          syncStageStartedAt, throttleFailureCount, throttleDuration, now, throttled>>

----------------------------------------------------------------------------
(* JavaScript values.  null and undefined are tokens distinct from every   *)
(* string of the input domains.                                            *)
Null == "<null>"
Undefined == "<undefined>"

(* Longest secondary collection (secondaryLinks, additionalPhones,         *)
(* additionalEmails) carried by one input record.                          *)
MaxSecondary == 2

(* Longest array value of one record of an ARRAY field.                    *)
MaxArrayLen == 2

(* The ids of the records of one merge call, in input order for the        *)
(* composite types: recordId is unique within a call.                      *)
RecordIds == <<"r1", "r2">>

(* An id no record of the call carries.                                    *)
MissingRecordId == "non-existent-id"

PriorityRecordIds == {RecordIds[i] : i \in 1..Len(RecordIds)} \cup {MissingRecordId}

ScalarFieldTypes == {"TEXT", "NUMBER"}
CompositeFieldTypes == {"EMAILS", "PHONES", "LINKS"}
FieldTypes == ScalarFieldTypes \cup {"ARRAY"} \cup CompositeFieldTypes

----------------------------------------------------------------------------
(* Stored forms of a secondary collection: null, a native array, the JSON  *)
(* text of an array (items is what the text encodes), or text that does    *)
(* not parse.                                                              *)
NullCollection == [kind |-> "null", items |-> <<>>]
MalformedText == [kind |-> "malformed", items |-> <<>>]
NativeArray(items) == [kind |-> "array", items |-> items]
JsonText(items) == [kind |-> "json", items |-> items]

(* PresenceClassifier: false for null, undefined and the empty string.     *)
hasRecordFieldValue(value) ==
    /\ value # Null
    /\ value # Undefined
    /\ value # ""

(* SequenceCoercer: a native array is returned as it is, JSON text is      *)
(* decoded, anything else (null, text that does not parse) is empty.       *)
parseArrayOrJsonStringToArray(value) ==
    IF value.kind = "array" THEN value.items
    ELSE IF value.kind = "json" THEN value.items
    ELSE <<>>

(* Array.isArray on a stored collection.                                   *)
isArray(value) == value.kind = "array"

(* Array.prototype.find as an index: given the positions whose element     *)
(* satisfies the callback, the first of them, 0 when there is none (find   *)
(* returns undefined).                                                     *)
find(matching) ==
    IF matching = {} THEN 0
    ELSE CHOOSE i \in matching : \A j \in matching : i <= j

RECURSIVE uniqByFrom(_, _, _)
uniqByFrom(s, key, kept) ==
    IF s = <<>> THEN kept
    ELSE uniqByFrom(Tail(s), key,
            IF \E k \in 1..Len(kept) : kept[k][key] = Head(s)[key]
            THEN kept
            ELSE Append(kept, Head(s)))

(* Slip: no deduplication.                                                 *)
uniqByKeepingDuplicates(s, key) == s

(* lodash uniqBy(array, key): the first occurrence of every key value, in  *)
(* the order of the array.                                                 *)
uniqBy(s, key) == uniqByFrom(s, key, <<>>)

(* A result's secondary collection: the array when non-empty, else null.   *)
nonEmptyOrNull(s) == IF Len(s) > 0 THEN NativeArray(s) ELSE NullCollection

(* How a call completes: not yet, by returning a value, or by throwing.    *)
Pending == [status |-> "pending", value |-> Null, error |-> "", message |-> ""]
Returned(value) == [status |-> "returned", value |-> value, error |-> "", message |-> ""]
Thrown(error, message) ==
    [status |-> "thrown", value |-> Null, error |-> error, message |-> message]

----------------------------------------------------------------------------
(* mergeLinksFieldValues, collect / deduplicate / exclude-primary version. *)

LinksEmptyDefaults ==
    [primaryLinkUrl |-> "", primaryLinkLabel |-> "", secondaryLinks |-> NullCollection]

(* Slip: the fallback scan adopts the last record with a present primary.  *)
chosenLinkRecordLastFallback(records, priorityId) ==
    LET priorityRecord == find({i \in 1..Len(records) : records[i].recordId = priorityId})
        present == {i \in 1..Len(records) : hasRecordFieldValue(records[i].value.primaryLinkUrl)}
    IN  IF priorityRecord # 0
           /\ hasRecordFieldValue(records[priorityRecord].value.primaryLinkUrl)
        THEN priorityRecord
        ELSE IF present = {} THEN 0
        ELSE CHOOSE i \in present : \A j \in present : j <= i

(* Primary selection: the priority record when it is found and its primary *)
(* url is present, else the first record with a present primary url, else  *)
(* the initial '' / ''.  Yields the index of the adopted record, 0 if none.*)
chosenLinkRecord(records, priorityId) ==
    LET priorityRecord == find({i \in 1..Len(records) : records[i].recordId = priorityId})
        fallbackRecord ==
            find({i \in 1..Len(records) : hasRecordFieldValue(records[i].value.primaryLinkUrl)})
    IN  IF priorityRecord # 0
           /\ hasRecordFieldValue(records[priorityRecord].value.primaryLinkUrl)
        THEN priorityRecord
        ELSE fallbackRecord

selectPrimaryLink(records, priorityId) ==
    LET chosen == chosenLinkRecord(records, priorityId)
    IN  IF chosen # 0
        THEN [primaryLinkUrl |-> records[chosen].value.primaryLinkUrl,
              primaryLinkLabel |-> records[chosen].value.primaryLinkLabel]
        ELSE [primaryLinkUrl |-> "", primaryLinkLabel |-> ""]

(* One pass of the forEach: the record's present primary link, then its    *)
(* decoded secondary links whose url is present.                           *)
linksOfRecord(record) ==
    (IF hasRecordFieldValue(record.value.primaryLinkUrl)
     THEN <<[url |-> record.value.primaryLinkUrl, label |-> record.value.primaryLinkLabel]>>
     ELSE <<>>)
    \o SelectSeq(parseArrayOrJsonStringToArray(record.value.secondaryLinks),
                 LAMBDA link : hasRecordFieldValue(link.url))

RECURSIVE collectAllLinks(_)
collectAllLinks(records) ==
    IF records = <<>> THEN <<>>
    ELSE linksOfRecord(Head(records)) \o collectAllLinks(Tail(records))

(* Deduplicate by url, then filter out the selected primary link.          *)
uniqueSecondaryLinks(allLinks, primaryLinkUrl) ==
    SelectSeq(uniqBy(allLinks, "url"), LAMBDA link : link.url # primaryLinkUrl)

mergeLinksFieldValues(records, priorityId) ==
    IF Len(records) = 0 THEN Returned(LinksEmptyDefaults)
    ELSE LET primary == selectPrimaryLink(records, priorityId)
             unique == uniqueSecondaryLinks(collectAllLinks(records), primary.primaryLinkUrl)
         IN  Returned([primaryLinkUrl |-> primary.primaryLinkUrl,
                       primaryLinkLabel |-> primary.primaryLinkLabel,
                       secondaryLinks |-> nonEmptyOrNull(unique)])

----------------------------------------------------------------------------
(* mergeLinksFieldValues, the version that leaves the chosen primary url   *)
(* out while collecting and deduplicates afterwards.                       *)

(* Slip: the chosen primary url is left out of the primary slots only.     *)
secondaryLinksOfRecordFilteringPrimarySlotOnly(record, primaryLinkUrl) ==
    (IF hasRecordFieldValue(record.value.primaryLinkUrl)
        /\ record.value.primaryLinkUrl # primaryLinkUrl
     THEN <<[url |-> record.value.primaryLinkUrl, label |-> record.value.primaryLinkLabel]>>
     ELSE <<>>)
    \o SelectSeq(parseArrayOrJsonStringToArray(record.value.secondaryLinks),
                 LAMBDA link : hasRecordFieldValue(link.url))

secondaryLinksOfRecord(record, primaryLinkUrl) ==
    (IF hasRecordFieldValue(record.value.primaryLinkUrl)
        /\ record.value.primaryLinkUrl # primaryLinkUrl
     THEN <<[url |-> record.value.primaryLinkUrl, label |-> record.value.primaryLinkLabel]>>
     ELSE <<>>)
    \o SelectSeq(parseArrayOrJsonStringToArray(record.value.secondaryLinks),
                 LAMBDA link : hasRecordFieldValue(link.url) /\ link.url # primaryLinkUrl)

RECURSIVE collectAllSecondaryLinks(_, _)
collectAllSecondaryLinks(records, primaryLinkUrl) ==
    IF records = <<>> THEN <<>>
    ELSE secondaryLinksOfRecord(Head(records), primaryLinkUrl)
         \o collectAllSecondaryLinks(Tail(records), primaryLinkUrl)

mergeLinksFieldValuesExcludeWhileCollecting(records, priorityId) ==
    IF Len(records) = 0 THEN Returned(LinksEmptyDefaults)
    ELSE LET primary == selectPrimaryLink(records, priorityId)
             unique == uniqBy(collectAllSecondaryLinks(records, primary.primaryLinkUrl), "url")
         IN  Returned([primaryLinkUrl |-> primary.primaryLinkUrl,
                       primaryLinkLabel |-> primary.primaryLinkLabel,
                       secondaryLinks |-> nonEmptyOrNull(unique)])

----------------------------------------------------------------------------
(* mergePhonesFieldValues.                                                 *)

(* Slip: the empty-input default leaves the country code null.             *)
PhonesEmptyDefaultsWithoutCountryCode ==
    [primaryPhoneNumber |-> "", primaryPhoneCountryCode |-> Null,
     primaryPhoneCallingCode |-> "", additionalPhones |-> NullCollection]

PhonesEmptyDefaults ==
    [primaryPhoneNumber |-> "", primaryPhoneCountryCode |-> "US",
     primaryPhoneCallingCode |-> "", additionalPhones |-> NullCollection]

(* Slip: the priority record is not consulted.                             *)
chosenPhoneRecordIgnoringPriority(records, priorityId) ==
    find({i \in 1..Len(records) : hasRecordFieldValue(records[i].value.primaryPhoneNumber)})

chosenPhoneRecord(records, priorityId) ==
    LET priorityRecord == find({i \in 1..Len(records) : records[i].recordId = priorityId})
        fallbackRecord ==
            find({i \in 1..Len(records) : hasRecordFieldValue(records[i].value.primaryPhoneNumber)})
    IN  IF priorityRecord # 0
           /\ hasRecordFieldValue(records[priorityRecord].value.primaryPhoneNumber)
        THEN priorityRecord
        ELSE fallbackRecord

(* The three locals start as '', null, '' and are overwritten from the     *)
(* adopted record only.                                                    *)
selectPrimaryPhone(records, priorityId) ==
    LET chosen == chosenPhoneRecord(records, priorityId)
    IN  IF chosen # 0
        THEN [primaryPhoneNumber |-> records[chosen].value.primaryPhoneNumber,
              primaryPhoneCountryCode |-> records[chosen].value.primaryPhoneCountryCode,
              primaryPhoneCallingCode |-> records[chosen].value.primaryPhoneCallingCode]
        ELSE [primaryPhoneNumber |-> "",
              primaryPhoneCountryCode |-> Null,
              primaryPhoneCallingCode |-> ""]

(* Slip: primary phones are not collected.                                 *)
phonesOfRecordWithoutPrimary(record) ==
    IF isArray(record.value.additionalPhones)
    THEN SelectSeq(record.value.additionalPhones.items,
                   LAMBDA phone : hasRecordFieldValue(phone.number))
    ELSE <<>>

(* One pass of the forEach: the record's present primary phone, then, only *)
(* when additionalPhones is a native array, its phones with a present      *)
(* number.                                                                 *)
phonesOfRecord(record) ==
    (IF hasRecordFieldValue(record.value.primaryPhoneNumber)
     THEN <<[number |-> record.value.primaryPhoneNumber,
             countryCode |-> record.value.primaryPhoneCountryCode,
             callingCode |-> record.value.primaryPhoneCallingCode]>>
     ELSE <<>>)
    \o (IF isArray(record.value.additionalPhones)
        THEN SelectSeq(record.value.additionalPhones.items,
                       LAMBDA phone : hasRecordFieldValue(phone.number))
        ELSE <<>>)

RECURSIVE collectAllPhones(_)
collectAllPhones(records) ==
    IF records = <<>> THEN <<>>
    ELSE phonesOfRecord(Head(records)) \o collectAllPhones(Tail(records))

(* Slip: the selected primary phone is not filtered out.                   *)
uniqueAdditionalPhonesKeepingPrimary(allPhones, primaryPhoneNumber) ==
    uniqBy(allPhones, "number")

(* Deduplicate by number, then filter out the selected primary phone.      *)
uniqueAdditionalPhones(allPhones, primaryPhoneNumber) ==
    SelectSeq(uniqBy(allPhones, "number"), LAMBDA phone : phone.number # primaryPhoneNumber)

(* Slip: a missing priority record is treated as on the scalar path.       *)
mergePhonesFieldValuesRequiringPriority(records, priorityId) ==
    IF find({i \in 1..Len(records) : records[i].recordId = priorityId}) = 0
    THEN Thrown("RecordNotFoundError",
                "Priority record with ID " \o priorityId \o " not found")
    ELSE Returned(PhonesEmptyDefaults)

mergePhonesFieldValues(records, priorityId) ==
    IF Len(records) = 0 THEN Returned(PhonesEmptyDefaults)
    ELSE LET primary == selectPrimaryPhone(records, priorityId)
             unique == uniqueAdditionalPhones(collectAllPhones(records),
                                              primary.primaryPhoneNumber)
         IN  Returned([primaryPhoneNumber |-> primary.primaryPhoneNumber,
                       primaryPhoneCountryCode |-> primary.primaryPhoneCountryCode,
                       primaryPhoneCallingCode |-> primary.primaryPhoneCallingCode,
                       additionalPhones |-> nonEmptyOrNull(unique)])

----------------------------------------------------------------------------
(* The mergers whose code is outside the files at hand, after the          *)
(* engine's specification (sections 4.3, 4.4, 4.5 and 4.6).                *)

RECURSIVE uniqFrom(_, _)
uniqFrom(s, kept) ==
    IF s = <<>> THEN kept
    ELSE uniqFrom(Tail(s),
            IF \E k \in 1..Len(kept) : kept[k] = Head(s) THEN kept ELSE Append(kept, Head(s)))

(* Removes later duplicates by value equality, keeping first occurrence.   *)
uniq(s) == uniqFrom(s, <<>>)

EmailsEmptyDefaults == [primaryEmail |-> "", additionalEmails |-> NullCollection]

selectPrimaryEmail(records, priorityId) ==
    LET priorityRecord == find({i \in 1..Len(records) : records[i].recordId = priorityId})
        fallbackRecord ==
            find({i \in 1..Len(records) : hasRecordFieldValue(records[i].value.primaryEmail)})
    IN  IF priorityRecord # 0 /\ hasRecordFieldValue(records[priorityRecord].value.primaryEmail)
        THEN records[priorityRecord].value.primaryEmail
        ELSE IF fallbackRecord # 0 THEN records[fallbackRecord].value.primaryEmail
        ELSE ""

emailsOfRecord(record) ==
    (IF hasRecordFieldValue(record.value.primaryEmail)
     THEN <<record.value.primaryEmail>>
     ELSE <<>>)
    \o SelectSeq(parseArrayOrJsonStringToArray(record.value.additionalEmails),
                 LAMBDA email : hasRecordFieldValue(email))

RECURSIVE collectAllEmails(_)
collectAllEmails(records) ==
    IF records = <<>> THEN <<>>
    ELSE emailsOfRecord(Head(records)) \o collectAllEmails(Tail(records))

mergeEmailsFieldValues(records, priorityId) ==
    IF Len(records) = 0 THEN Returned(EmailsEmptyDefaults)
    ELSE LET primaryEmail == selectPrimaryEmail(records, priorityId)
             unique == SelectSeq(uniq(collectAllEmails(records)),
                                 LAMBDA email : email # primaryEmail)
         IN  Returned([primaryEmail |-> primaryEmail,
                       additionalEmails |-> nonEmptyOrNull(unique)])

RECURSIVE flatValues(_)
flatValues(records) ==
    IF records = <<>> THEN <<>>
    ELSE Head(records).value \o flatValues(Tail(records))

(* Slip: the flattened values are not deduplicated.                        *)
mergeArrayFieldValuesKeepingDuplicates(records) == Returned(flatValues(records))

(* ArrayMerger: flatten in input order, keep first occurrences.            *)
mergeArrayFieldValues(records) == Returned(uniq(flatValues(records)))

(* Slip: an absent priority value falls back to the first present value.   *)
selectPriorityFieldValueWithFallback(records, priorityId) ==
    LET priorityRecord == find({i \in 1..Len(records) : records[i].recordId = priorityId})
        fallbackRecord == find({i \in 1..Len(records) : hasRecordFieldValue(records[i].value)})
    IN  IF priorityRecord = 0
        THEN Thrown("RecordNotFoundError",
                    "Priority record with ID " \o priorityId \o " not found")
        ELSE IF hasRecordFieldValue(records[priorityRecord].value) \/ fallbackRecord = 0
        THEN Returned(records[priorityRecord].value)
        ELSE Returned(records[fallbackRecord].value)

(* Slip: a missing priority record falls back to the first record.         *)
selectPriorityFieldValueOrFirst(records, priorityId) ==
    LET priorityRecord == find({i \in 1..Len(records) : records[i].recordId = priorityId})
    IN  IF priorityRecord # 0 THEN Returned(records[priorityRecord].value)
        ELSE IF Len(records) > 0 THEN Returned(records[1].value)
        ELSE Thrown("RecordNotFoundError",
                    "Priority record with ID " \o priorityId \o " not found")

(* ScalarMerger: the value of the record whose recordId is the priority    *)
(* id; RecordNotFoundError when there is none.                             *)
selectPriorityFieldValue(records, priorityId) ==
    LET priorityRecord == find({i \in 1..Len(records) : records[i].recordId = priorityId})
    IN  IF priorityRecord = 0
        THEN Thrown("RecordNotFoundError",
                    "Priority record with ID " \o priorityId \o " not found")
        ELSE Returned(records[priorityRecord].value)

(* Slip: the links merger is not handed the priority id.                   *)
mergeFieldValuesDroppingLinksPriority(type, records, priorityId) ==
    CASE type = "ARRAY" -> mergeArrayFieldValues(records)
      [] type = "EMAILS" -> mergeEmailsFieldValues(records, priorityId)
      [] type = "PHONES" -> mergePhonesFieldValues(records, priorityId)
      [] type = "LINKS" -> mergeLinksFieldValues(records, MissingRecordId)
      [] OTHER -> selectPriorityFieldValue(records, priorityId)

(* Slip: for ARRAY the priority record's own array wins when it is found.  *)
mergeFieldValuesPreferringPriorityArray(type, records, priorityId) ==
    CASE type = "ARRAY" ->
            LET priorityRecord ==
                    find({i \in 1..Len(records) : records[i].recordId = priorityId})
            IN  IF priorityRecord # 0
                THEN Returned(uniq(records[priorityRecord].value))
                ELSE mergeArrayFieldValues(records)
      [] type = "EMAILS" -> mergeEmailsFieldValues(records, priorityId)
      [] type = "PHONES" -> mergePhonesFieldValues(records, priorityId)
      [] type = "LINKS" -> mergeLinksFieldValues(records, priorityId)
      [] OTHER -> selectPriorityFieldValue(records, priorityId)

(* FieldValueMerger: dispatch on the field type.                           *)
mergeFieldValues(type, records, priorityId) ==
    CASE type = "ARRAY" -> mergeArrayFieldValues(records)
      [] type = "EMAILS" -> mergeEmailsFieldValues(records, priorityId)
      [] type = "PHONES" -> mergePhonesFieldValues(records, priorityId)
      [] type = "LINKS" -> mergeLinksFieldValues(records, priorityId)
      [] OTHER -> selectPriorityFieldValue(records, priorityId)

----------------------------------------------------------------------------
(* isThrottled (connected-account/utils/is-throttled.ts).                  *)
(*                                                                         *)
(* A JavaScript time value is a number of milliseconds since the epoch, up *)
(* to 8.64e15 in magnitude and possibly fractional before it is clipped.   *)
(* It is kept here as whole days plus half-milliseconds of the day, so     *)
(* that both the half millisecond of 2^(-1) and the end of the Date range  *)
(* stay within the integers.                                               *)
HalfMsPerDay == 172800000

(* The largest time value of a Date: 8.64e15 ms, that is 100,000,000 days. *)
MaxTimeValueDays == 100000000

(* Largest throttleFailureCount of a call.                                 *)
MaxFailureCount == 40

Instant(days, halfMs) == [days |-> days, halfMs |-> halfMs]

Carry(t) == Instant(t.days + (t.halfMs \div HalfMsPerDay), t.halfMs % HalfMsPerDay)
Plus(a, b) == Carry(Instant(a.days + b.days, a.halfMs + b.halfMs))
Before(a, b) == a.days < b.days \/ (a.days = b.days /\ a.halfMs < b.halfMs)

(* t * factor, for a factor of at most 8.                                  *)
Times(t, factor) == Carry(Instant(t.days * factor, t.halfMs * factor))

(* t * 2^exponent, three doublings at a time.                              *)
RECURSIVE TimesPowerOfTwo(_, _)
TimesPowerOfTwo(t, exponent) ==
    IF exponent <= 3
    THEN Times(t, 2 ^ exponent)
    ELSE Times(TimesPowerOfTwo(t, exponent - 3), 8)

(* Stored forms of syncStageStartedAt: null, '' or an ISO date-time string *)
(* with millisecond precision.                                             *)
NullStart == [kind |-> "null", days |-> 0, ms |-> 0]
EmptyStart == [kind |-> "empty", days |-> 0, ms |-> 0]
DateString(days, ms) == [kind |-> "date", days |-> days, ms |-> ms]

(* A Date object: its time value is a whole number of milliseconds, or NaN *)
(* (Invalid Date).                                                         *)
InvalidDate == [valid |-> FALSE, days |-> 0, halfMs |-> 0]

(* new Date(value): TimeClip gives NaN beyond the Date range and truncates *)
(* a fraction of a millisecond otherwise (time values here are >= 0).      *)
newDate(timeValue) ==
    IF Before(Instant(MaxTimeValueDays, 0), timeValue)
    THEN InvalidDate
    ELSE [valid |-> TRUE, days |-> timeValue.days,
          halfMs |-> timeValue.halfMs - (timeValue.halfMs % 2)]

(* new Date(syncStageStartedAt).getTime().                                 *)
getTime(dateString) == Instant(dateString.days, 2 * dateString.ms)

(* a > b on two Dates: a comparison of their time values, false when one   *)
(* is NaN.                                                                 *)
GreaterThan(a, b) ==
    /\ a.valid
    /\ b.valid
    /\ Before(Instant(b.days, b.halfMs), Instant(a.days, a.halfMs))

(* throttleDuration * Math.pow(2, throttleFailureCount - 1) milliseconds   *)
(* is throttleDuration * 2^throttleFailureCount half-milliseconds.         *)
computeThrottlePauseUntil(startedAt, failureCount, duration) ==
    newDate(Plus(getTime(startedAt),
                 TimesPowerOfTwo(Instant(0, duration), failureCount)))

isThrottled(startedAt, failureCount, duration) ==
    IF startedAt.kind \in {"null", "empty"}
    THEN FALSE
    ELSE GreaterThan(computeThrottlePauseUntil(startedAt, failureCount, duration),
                     newDate(now))

----------------------------------------------------------------------------
(* The arguments of one call.  Every unit of a composite input carries     *)
(* attributes that name the slot it was read from, so that the origin of   *)
(* every attribute of a result can be told.                                *)

AbsentValues == {Null, ""}
Urls == {"https://a.com", "https://b.com"}
PhoneNumbers == {"+1111111111", "+2222222222"}
EmailAddresses == {"a@example.com", "b@example.com"}
ScalarValues == {Null, "", "value1", "value2"}
ArrayElements == {"a", "b", "c"}

(* Sequences over S of length at most n.                                   *)
SeqsUpTo(S, n) == UNION {[1..k -> S] : k \in 0..n}

(* The stored forms of the secondary collections in itemSeqs.              *)
StoredCollections(itemSeqs) ==
    {NullCollection, MalformedText}
        \cup {NativeArray(items) : items \in itemSeqs}
        \cup {JsonText(items) : items \in itemSeqs}

(* What is drawn for one composite record: the identity in its primary    *)
(* slot and the stored form of the identities of its secondary units.      *)
CompositeShapes(present) ==
    [primary : present \cup AbsentValues,
     secondary : StoredCollections(SeqsUpTo(present \cup {""}, MaxSecondary))]

LinkLabel(i, j) == "label-" \o ToString(i) \o "-" \o ToString(j)

LinksValue(i, shape) ==
    [primaryLinkUrl |-> shape.primary,
     primaryLinkLabel |-> LinkLabel(i, 0),
     secondaryLinks |->
        [kind |-> shape.secondary.kind,
         items |-> [j \in 1..Len(shape.secondary.items) |->
                      [url |-> shape.secondary.items[j], label |-> LinkLabel(i, j)]]]]

PhoneRegions ==
    <<[countryCode |-> "US", callingCode |-> "+1"],
      [countryCode |-> "FR", callingCode |-> "+33"],
      [countryCode |-> "GB", callingCode |-> "+44"],
      [countryCode |-> "DE", callingCode |-> "+49"],
      [countryCode |-> "JP", callingCode |-> "+81"],
      [countryCode |-> "IN", callingCode |-> "+91"],
      [countryCode |-> "BR", callingCode |-> "+55"],
      [countryCode |-> "ES", callingCode |-> "+34"],
      [countryCode |-> "IT", callingCode |-> "+39"],
      [countryCode |-> "SE", callingCode |-> "+46"]>>

PhoneRegion(i, j) ==
    PhoneRegions[(((i - 1) * (MaxSecondary + 1) + j) % Len(PhoneRegions)) + 1]

PhonesValue(i, shape) ==
    [primaryPhoneNumber |-> shape.primary,
     primaryPhoneCountryCode |-> PhoneRegion(i, 0).countryCode,
     primaryPhoneCallingCode |-> PhoneRegion(i, 0).callingCode,
     additionalPhones |->
        [kind |-> shape.secondary.kind,
         items |-> [j \in 1..Len(shape.secondary.items) |->
                      [number |-> shape.secondary.items[j],
                       countryCode |-> PhoneRegion(i, j).countryCode,
                       callingCode |-> PhoneRegion(i, j).callingCode]]]]

EmailsValue(i, shape) ==
    [primaryEmail |-> shape.primary, additionalEmails |-> shape.secondary]

(* What is drawn for the i-th record of a call: its value and, for a       *)
(* scalar field, its id.  Records of the array and composite types carry   *)
(* the i-th id; records of a scalar field carry any id, so an id may       *)
(* repeat there.                                                           *)
Draws(type) ==
    CASE type = "LINKS" -> [id : {0}, value : CompositeShapes(Urls)]
      [] type = "PHONES" -> [id : {0}, value : CompositeShapes(PhoneNumbers)]
      [] type = "EMAILS" -> [id : {0}, value : CompositeShapes(EmailAddresses)]
      [] type = "ARRAY" -> [id : {0}, value : SeqsUpTo(ArrayElements, MaxArrayLen)]
      [] OTHER -> [id : 1..Len(RecordIds), value : ScalarValues]

InputRecord(type, i, draw) ==
    [recordId |-> RecordIds[IF draw.id = 0 THEN i ELSE draw.id],
     value |-> CASE type = "LINKS" -> LinksValue(i, draw.value)
                 [] type = "PHONES" -> PhonesValue(i, draw.value)
                 [] type = "EMAILS" -> EmailsValue(i, draw.value)
                 [] OTHER -> draw.value]

----------------------------------------------------------------------------
Init ==
    /\ fieldType \in FieldTypes
    /\ \E n \in 0..Len(RecordIds) :
         \E draws \in [1..n -> Draws(fieldType)] :
            recordsWithValues = [i \in 1..n |-> InputRecord(fieldType, i, draws[i])]
    /\ priorityRecordId \in PriorityRecordIds
    /\ merger = "none"
    /\ outcome = Pending
    /\ again = Pending
    /\ syncStageStartedAt = NullStart
    /\ throttleFailureCount = 0
    /\ throttleDuration = 0
    /\ now = Instant(0, 0)
    /\ throttled = Pending

(* The caller invokes the entry point.                                     *)
MergeFieldValues ==
    /\ merger = "none"
    /\ merger' = "mergeFieldValues"
    /\ outcome' = mergeFieldValues(fieldType, recordsWithValues, priorityRecordId)
    /\ UNCHANGED <<fieldType, recordsWithValues, priorityRecordId, again>>
    /\ UNCHANGED throttleVars

(* The links merger that excludes the primary url while collecting, on a   *)
(* LINKS field.                                                            *)
MergeLinksExcludeWhileCollecting ==
    /\ merger = "none"
    /\ fieldType = "LINKS"
    /\ merger' = "mergeLinksFieldValuesExcludeWhileCollecting"
    /\ outcome' = mergeLinksFieldValuesExcludeWhileCollecting(recordsWithValues,
                                                              priorityRecordId)
    /\ UNCHANGED <<fieldType, recordsWithValues, priorityRecordId, again>>
    /\ UNCHANGED throttleVars

(* The caller merges again, with the returned value as the sole record and *)
(* that record as the priority record.                                     *)
MergeOwnOutput ==
    /\ outcome.status = "returned"
    /\ again.status = "pending"
    /\ again' = mergeFieldValues(fieldType,
                                 <<[recordId |-> RecordIds[1], value |-> outcome.value]>>,
                                 RecordIds[1])
    /\ UNCHANGED <<fieldType, recordsWithValues, priorityRecordId, merger, outcome>>
    /\ UNCHANGED throttleVars

Next ==
    \/ MergeFieldValues
    \/ MergeLinksExcludeWhileCollecting
    \/ MergeOwnOutput

Spec == Init /\ [][Next]_vars

(* One isThrottled call: a sync stage started on some day, at the start of *)
(* the day or one millisecond later, a failure count, a base pause of 1 ms,*)
(* 3 ms or one minute, and a clock reading.                                *)
StartDays == {20000}
ClockDays == {20000, 20001, 95000}
ThrottleDurations == {1, 3, 60000}

ThrottleInit ==
    /\ syncStageStartedAt \in
          {NullStart, EmptyStart} \cup {DateString(d, ms) : d \in StartDays, ms \in {0, 1}}
    /\ throttleFailureCount \in 0..MaxFailureCount
    /\ throttleDuration \in ThrottleDurations
    /\ now \in {Instant(d, 2 * ms) : d \in ClockDays, ms \in {0, 1}}
    /\ throttled = Pending
    /\ fieldType = "TEXT"
    /\ recordsWithValues = <<>>
    /\ priorityRecordId = MissingRecordId
    /\ merger = "none"
    /\ outcome = Pending
    /\ again = Pending

IsThrottled ==
    /\ throttled.status = "pending"
    /\ throttled' = Returned(isThrottled(syncStageStartedAt, throttleFailureCount,
                                         throttleDuration))
    /\ UNCHANGED <<syncStageStartedAt, throttleFailureCount, throttleDuration, now>>
    /\ UNCHANGED mergeVars

ThrottleNext == IsThrottled

ThrottleSpec == ThrottleInit /\ [][ThrottleNext]_vars

----------------------------------------------------------------------------
(* Vocabulary of the properties.                                           *)

(* A value is present when it is neither null, undefined nor ''.           *)
Present(value) == value \notin {Null, Undefined, ""}

Called == merger # "none"
ReturnedComposite == outcome.status = "returned" /\ fieldType \in CompositeFieldTypes
NumRecords == Len(recordsWithValues)

(* The primary slot of a composite value as a unit of its secondary        *)
(* collection, the identity of a unit, and the secondary collection.       *)
PrimaryUnit(type, value) ==
    CASE type = "LINKS" -> [url |-> value.primaryLinkUrl, label |-> value.primaryLinkLabel]
      [] type = "PHONES" -> [number |-> value.primaryPhoneNumber,
                             countryCode |-> value.primaryPhoneCountryCode,
                             callingCode |-> value.primaryPhoneCallingCode]
      [] type = "EMAILS" -> value.primaryEmail

Identity(type, unit) ==
    CASE type = "LINKS" -> unit.url
      [] type = "PHONES" -> unit.number
      [] type = "EMAILS" -> unit

Secondary(type, value) ==
    CASE type = "LINKS" -> value.secondaryLinks
      [] type = "PHONES" -> value.additionalPhones
      [] type = "EMAILS" -> value.additionalEmails

PrimaryIdentity(type, value) == Identity(type, PrimaryUnit(type, value))

(* Identities of the units of a secondary collection, as a sequence.       *)
SecondaryIdentities(type, value) ==
    [k \in 1..Len(Secondary(type, value).items) |->
        Identity(type, Secondary(type, value).items[k])]

InputPrimaryIdentity(i) == PrimaryIdentity(fieldType, recordsWithValues[i].value)
ResultPrimaryIdentity == PrimaryIdentity(fieldType, outcome.value)
ResultSecondaryIdentities == SecondaryIdentities(fieldType, outcome.value)
ResultSecondarySet == {ResultSecondaryIdentities[k] : k \in 1..Len(ResultSecondaryIdentities)}

(* The identities record i stores in a native-array secondary collection.  *)
NativeSecondarySet(i) ==
    LET stored == Secondary(fieldType, recordsWithValues[i].value)
    IN  IF stored.kind = "array"
        THEN {Identity(fieldType, stored.items[k]) : k \in 1..Len(stored.items)}
        ELSE {}

(* Positions of the records carrying the priority id.                      *)
PriorityPositions == {i \in 1..NumRecords : recordsWithValues[i].recordId = priorityRecordId}
PresentPrimaryPositions == {i \in 1..NumRecords : Present(InputPrimaryIdentity(i))}

----------------------------------------------------------------------------
(* C1: the secondary collection returned by mergeLinksFieldValues (either  *)
(* version, keyed by url) and by mergePhonesFieldValues (keyed by number)  *)
(* holds no two units with the same identity attribute.                    *)
C1_SecondaryHasNoDuplicateIdentity ==
    (outcome.status = "returned" /\ fieldType \in {"LINKS", "PHONES"}) =>
        \A k, l \in 1..Len(ResultSecondaryIdentities) :
            k # l => ResultSecondaryIdentities[k] # ResultSecondaryIdentities[l]

(* An identity that is not the result's primary is stored by both records  *)
(* as a secondary unit and comes out once.                                 *)
C1_Witness ==
    /\ outcome.status = "returned"
    /\ fieldType \in {"LINKS", "PHONES"}
    /\ NumRecords = 2
    /\ \E id \in NativeSecondarySet(1) \cap NativeSecondarySet(2) :
          /\ Present(id)
          /\ id # ResultPrimaryIdentity
          /\ id \in ResultSecondarySet

(* C2: the secondary collection of a composite merge result (emails,       *)
(* phones, links) never holds a unit whose identity equals the identity of *)
(* the result's primary.                                                   *)
C2_SecondaryExcludesPrimaryIdentity ==
    ReturnedComposite => ResultPrimaryIdentity \notin ResultSecondarySet

(* The chosen primary identity is also the other record's primary and one  *)
(* of its secondary units, and the result still has secondary units.       *)
C2_Witness ==
    /\ outcome.status = "returned"
    /\ fieldType \in {"LINKS", "PHONES"}
    /\ NumRecords = 2
    /\ priorityRecordId = recordsWithValues[2].recordId
    /\ Present(InputPrimaryIdentity(2))
    /\ InputPrimaryIdentity(1) = InputPrimaryIdentity(2)
    /\ InputPrimaryIdentity(2) \in NativeSecondarySet(1)
    /\ ResultSecondarySet # {}

(* C3: when the record carrying the priority id has a present primary      *)
(* slot, the result's primary equals that slot in every attribute.         *)
C3_PriorityPrimaryIsAdopted ==
    ReturnedComposite =>
        \A i \in PriorityPositions :
            Present(InputPrimaryIdentity(i)) =>
                PrimaryUnit(fieldType, outcome.value)
                    = PrimaryUnit(fieldType, recordsWithValues[i].value)

(* The priority record comes second, after a record with another present   *)
(* primary.                                                                *)
C3_Witness ==
    /\ ReturnedComposite
    /\ NumRecords = 2
    /\ PriorityPositions = {2}
    /\ Present(InputPrimaryIdentity(1))
    /\ Present(InputPrimaryIdentity(2))
    /\ InputPrimaryIdentity(1) # InputPrimaryIdentity(2)
    /\ ResultPrimaryIdentity = InputPrimaryIdentity(2)

(* C4: the present primary identity of every input record of a composite   *)
(* merge is the result's primary identity or the identity of a unit of the *)
(* result's secondary collection.                                          *)
C4_PrimaryIdentitiesArePreserved ==
    ReturnedComposite =>
        \A i \in PresentPrimaryPositions :
            \/ InputPrimaryIdentity(i) = ResultPrimaryIdentity
            \/ InputPrimaryIdentity(i) \in ResultSecondarySet

(* The primary of the non-priority record ends in the secondary            *)
(* collection.                                                             *)
C4_Witness ==
    /\ ReturnedComposite
    /\ NumRecords = 2
    /\ PriorityPositions = {2}
    /\ Present(InputPrimaryIdentity(1))
    /\ Present(InputPrimaryIdentity(2))
    /\ InputPrimaryIdentity(1) # ResultPrimaryIdentity
    /\ InputPrimaryIdentity(1) \in ResultSecondarySet

(* C5: when no record carries the priority id, or the one that does has an *)
(* absent primary slot, the result's primary is the primary slot, in every *)
(* attribute, of the first record in input order whose primary slot is     *)
(* present.                                                                *)
C5_FallbackIsFirstPresentPrimary ==
    (/\ ReturnedComposite
     /\ \A i \in PriorityPositions : ~Present(InputPrimaryIdentity(i))
     /\ PresentPrimaryPositions # {}) =>
        LET first == CHOOSE i \in PresentPrimaryPositions :
                        \A j \in PresentPrimaryPositions : i <= j
        IN  PrimaryUnit(fieldType, outcome.value)
                = PrimaryUnit(fieldType, recordsWithValues[first].value)

(* No record carries the priority id and two records have different        *)
(* present primaries: the first one is adopted.                            *)
C5_Witness ==
    /\ ReturnedComposite
    /\ PriorityPositions = {}
    /\ PresentPrimaryPositions = {1, 2}
    /\ InputPrimaryIdentity(1) # InputPrimaryIdentity(2)
    /\ ResultPrimaryIdentity = InputPrimaryIdentity(1)

(* C6: mergeFieldValues raises on the scalar path only: for ARRAY and for  *)
(* the composite field types every call returns a result, also when no     *)
(* record carries the priority id.                                         *)
C6_OnlyScalarPathRaises ==
    (Called /\ fieldType \notin ScalarFieldTypes) => outcome.status = "returned"

(* A composite merge of two records, none of which carries the priority    *)
(* id, has returned.                                                       *)
C6_Witness ==
    /\ merger = "mergeFieldValues"
    /\ fieldType \in CompositeFieldTypes
    /\ NumRecords = 2
    /\ PriorityPositions = {}
    /\ outcome.status = "returned"

(* Decoded units of a stored secondary collection, as the sequence        *)
(* coercer of the specification gives them.                                *)
DecodedItems(stored) == IF stored.kind \in {"array", "json"} THEN stored.items ELSE <<>>

RECURSIVE PresentSecondaryUnits(_, _)
PresentSecondaryUnits(type, records) ==
    IF records = <<>> THEN <<>>
    ELSE SelectSeq(DecodedItems(Secondary(type, Head(records).value)),
                   LAMBDA unit : Present(Identity(type, unit)))
         \o PresentSecondaryUnits(type, Tail(records))

RECURSIVE FirstOccurrences(_, _, _)
FirstOccurrences(type, units, seen) ==
    IF units = <<>> THEN <<>>
    ELSE IF Identity(type, Head(units)) \in seen
    THEN FirstOccurrences(type, Tail(units), seen)
    ELSE <<Head(units)>>
         \o FirstOccurrences(type, Tail(units), seen \cup {Identity(type, Head(units))})

(* C7: on a non-empty input of a links or phones merge where no record's   *)
(* primary slot is present, the result's primary equals the type's empty   *)
(* defaults (links '' / ''; phones '' / 'US' / '') and the secondary       *)
(* collection is the first-occurrence-deduplicated union of all present    *)
(* secondary units of all records.                                         *)
C7_NoPresentPrimaryGivesDefaults ==
    (/\ outcome.status = "returned"
     /\ fieldType \in {"LINKS", "PHONES"}
     /\ NumRecords > 0
     /\ PresentPrimaryPositions = {}) =>
        /\ fieldType = "LINKS" =>
              PrimaryUnit(fieldType, outcome.value) = [url |-> "", label |-> ""]
        /\ fieldType = "PHONES" =>
              PrimaryUnit(fieldType, outcome.value)
                  = [number |-> "", countryCode |-> "US", callingCode |-> ""]
        /\ Secondary(fieldType, outcome.value).items
              = FirstOccurrences(fieldType,
                                 PresentSecondaryUnits(fieldType, recordsWithValues), {})

(* C8: on an empty records sequence mergeFieldValues returns the type's    *)
(* empty default for ARRAY and for every composite type, whatever the      *)
(* priority id, and raises RecordNotFoundError for a scalar field type.    *)
C8_EmptyInputGivesDefaults ==
    (Called /\ NumRecords = 0) =>
        CASE fieldType = "ARRAY" ->
                outcome.status = "returned" /\ Len(outcome.value) = 0
          [] fieldType = "LINKS" ->
                /\ outcome.status = "returned"
                /\ outcome.value = [primaryLinkUrl |-> "", primaryLinkLabel |-> "",
                                    secondaryLinks |-> NullCollection]
          [] fieldType = "PHONES" ->
                /\ outcome.status = "returned"
                /\ outcome.value = [primaryPhoneNumber |-> "",
                                    primaryPhoneCountryCode |-> "US",
                                    primaryPhoneCallingCode |-> "",
                                    additionalPhones |-> NullCollection]
          [] fieldType = "EMAILS" ->
                /\ outcome.status = "returned"
                /\ outcome.value = [primaryEmail |-> "", additionalEmails |-> NullCollection]
          [] OTHER ->
                outcome.status = "thrown" /\ outcome.error = "RecordNotFoundError"

(* A phones merge of no records, called with the id of a record, has       *)
(* returned.                                                               *)
C8_Witness ==
    /\ Called
    /\ NumRecords = 0
    /\ fieldType = "PHONES"
    /\ priorityRecordId = RecordIds[1]
    /\ outcome.status = "returned"

(* C9: for a scalar field type, when exactly one record carries the        *)
(* priority id, mergeFieldValues returns that record's value unchanged,    *)
(* also when it is null or empty, whatever the other records hold.         *)
C9_ScalarReturnsPriorityValue ==
    (Called /\ fieldType \in ScalarFieldTypes /\ Cardinality(PriorityPositions) = 1) =>
        \A i \in PriorityPositions :
            /\ outcome.status = "returned"
            /\ outcome.value = recordsWithValues[i].value

(* The priority record comes second and holds null, the first record holds *)
(* a present value: null is returned.                                      *)
C9_Witness ==
    /\ Called
    /\ fieldType \in ScalarFieldTypes
    /\ PriorityPositions = {2}
    /\ recordsWithValues[2].value = Null
    /\ Present(recordsWithValues[1].value)
    /\ outcome.status = "returned"
    /\ outcome.value = Null

(* C10: for a scalar field type, mergeFieldValues raises                   *)
(* RecordNotFoundError, its message naming the requested id, exactly when  *)
(* no record carries the priority id.                                      *)
C10_ScalarRaisesIffPriorityMissing ==
    (Called /\ fieldType \in ScalarFieldTypes) =>
        /\ outcome.status = "thrown" <=> PriorityPositions = {}
        /\ outcome.status = "thrown" =>
              /\ outcome.error = "RecordNotFoundError"
              /\ outcome.message
                    = "Priority record with ID " \o priorityRecordId \o " not found"

(* Two records hold present values, neither carries the priority id: the   *)
(* call has raised.                                                        *)
C10_Witness ==
    /\ Called
    /\ fieldType \in ScalarFieldTypes
    /\ NumRecords = 2
    /\ PriorityPositions = {}
    /\ \A i \in 1..NumRecords : Present(recordsWithValues[i].value)
    /\ outcome.status = "thrown"

----------------------------------------------------------------------------
(* Position of element j of record i in the scan of an ARRAY input:        *)
(* records in input order, each record's elements in their own order.      *)
ScanPosition(i, j) == i * (MaxArrayLen + 1) + j

ArrayOccurrences(x) ==
    {ScanPosition(i, j) : <<i, j>> \in
        {<<k, l>> \in (1..NumRecords) \X (1..MaxArrayLen) :
            l <= Len(recordsWithValues[k].value) /\ recordsWithValues[k].value[l] = x}}

FirstArrayOccurrence(x) ==
    CHOOSE p \in ArrayOccurrences(x) : \A q \in ArrayOccurrences(x) : p <= q

ArrayInputElements ==
    UNION {{recordsWithValues[i].value[j] : j \in 1..Len(recordsWithValues[i].value)} :
            i \in 1..NumRecords}

(* C11: for an ARRAY field the result holds exactly the set union of the   *)
(* elements of all records' arrays, without duplicates, ordered by first   *)
(* occurrence in the scan of the records in input order and of each        *)
(* record's elements in their own order.                                   *)
C11_ArrayIsFirstOccurrenceUnion ==
    (Called /\ fieldType = "ARRAY") =>
        /\ outcome.status = "returned"
        /\ {outcome.value[k] : k \in 1..Len(outcome.value)} = ArrayInputElements
        /\ \A k, l \in 1..Len(outcome.value) :
              k < l => FirstArrayOccurrence(outcome.value[k])
                          < FirstArrayOccurrence(outcome.value[l])

(* Two records share an element and the second brings a new one: [x, y]    *)
(* and [y, z] give three elements.                                         *)
C11_Witness ==
    /\ Called
    /\ fieldType = "ARRAY"
    /\ NumRecords = 2
    /\ Len(recordsWithValues[1].value) = 2
    /\ Len(recordsWithValues[2].value) = 2
    /\ recordsWithValues[1].value[2] = recordsWithValues[2].value[1]
    /\ recordsWithValues[1].value[1] # recordsWithValues[1].value[2]
    /\ recordsWithValues[2].value[2] \notin
          {recordsWithValues[1].value[1], recordsWithValues[1].value[2]}
    /\ outcome.status = "returned"
    /\ Len(outcome.value) = 3

(* C12: idempotence.  Whenever mergeFieldValues returned R, the call on    *)
(* the single record {recordId: p, value: R} with priority p returns a     *)
(* value equal to R, for every field shape, the result of an empty input   *)
(* included.                                                               *)
C12_MergeIsIdempotent ==
    again.status # "pending" =>
        /\ again.status = "returned"
        /\ again.value = outcome.value

(* C13: mergeFieldValues routes by field type: for ARRAY, EMAILS, PHONES   *)
(* and LINKS its outcome is the outcome of the matching merger called with *)
(* the same records and priority id, and for every other field type it is  *)
(* the scalar merger's (the priority record's value or                     *)
(* RecordNotFoundError).                                                   *)
C13_DispatchMatchesMerger ==
    merger = "mergeFieldValues" =>
        outcome =
            CASE fieldType = "ARRAY" -> mergeArrayFieldValues(recordsWithValues)
              [] fieldType = "EMAILS" ->
                    mergeEmailsFieldValues(recordsWithValues, priorityRecordId)
              [] fieldType = "PHONES" ->
                    mergePhonesFieldValues(recordsWithValues, priorityRecordId)
              [] fieldType = "LINKS" ->
                    mergeLinksFieldValues(recordsWithValues, priorityRecordId)
              [] fieldType \in ScalarFieldTypes ->
                    selectPriorityFieldValue(recordsWithValues, priorityRecordId)

(* A LINKS call on two records whose priority record comes second has      *)
(* returned a composite value with secondary links.                        *)
C13_Witness ==
    /\ merger = "mergeFieldValues"
    /\ fieldType = "LINKS"
    /\ NumRecords = 2
    /\ PriorityPositions = {2}
    /\ outcome.status = "returned"
    /\ outcome.value.secondaryLinks.kind = "array"

(* C14: for an ARRAY field the result does not depend on the priority id:  *)
(* on the same records every priority id, carried by a record or not,      *)
(* gives the outcome of the call made.                                     *)
C14_ArrayIgnoresPriority ==
    (merger = "mergeFieldValues" /\ fieldType = "ARRAY") =>
        \A otherPriorityId \in PriorityRecordIds :
            mergeFieldValues(fieldType, recordsWithValues, otherPriorityId) = outcome

(* Two records with different non-empty arrays, merged under an id that no *)
(* record carries.                                                         *)
C14_Witness ==
    /\ merger = "mergeFieldValues"
    /\ fieldType = "ARRAY"
    /\ NumRecords = 2
    /\ priorityRecordId = MissingRecordId
    /\ Len(recordsWithValues[1].value) > 0
    /\ Len(recordsWithValues[2].value) > 0
    /\ recordsWithValues[1].value # recordsWithValues[2].value
    /\ outcome.status = "returned"

(* The candidate pool of a composite merge as the specification lays it    *)
(* out: per record in input order, its present primary, then the present   *)
(* units of its decoded secondary collection in their own order.           *)
RECURSIVE CandidatePool(_, _)
CandidatePool(type, records) ==
    IF records = <<>> THEN <<>>
    ELSE (IF Present(PrimaryIdentity(type, Head(records).value))
          THEN <<PrimaryUnit(type, Head(records).value)>>
          ELSE <<>>)
         \o SelectSeq(DecodedItems(Secondary(type, Head(records).value)),
                      LAMBDA unit : Present(Identity(type, unit)))
         \o CandidatePool(type, Tail(records))

(* The pool after first-occurrence deduplication and removal of the        *)
(* result's primary.                                                       *)
DeduplicatedPoolWithoutPrimary ==
    SelectSeq(FirstOccurrences(fieldType, CandidatePool(fieldType, recordsWithValues), {}),
              LAMBDA unit : Identity(fieldType, unit) # ResultPrimaryIdentity)

(* Some record stores text (not a native array) that decodes to a unit     *)
(* with a present identity.                                                *)
TextStoredPresentUnit ==
    \E i \in 1..NumRecords :
        LET stored == Secondary(fieldType, recordsWithValues[i].value)
        IN  /\ stored.kind = "json"
            /\ \E k \in 1..Len(stored.items) : Present(Identity(fieldType, stored.items[k]))

(* C15: every unit with a present identity in the decoded secondary        *)
(* collection of a record, stored natively or as serialized text, ends in  *)
(* the result of the composite merge as the primary or in the secondary    *)
(* collection, for links and for phones alike.                             *)
C15_DecodedSecondaryUnitsArePreserved ==
    ReturnedComposite =>
        \A i \in 1..NumRecords :
            LET items == DecodedItems(Secondary(fieldType, recordsWithValues[i].value))
            IN  \A k \in 1..Len(items) :
                    Present(Identity(fieldType, items[k])) =>
                        \/ Identity(fieldType, items[k]) = ResultPrimaryIdentity
                        \/ Identity(fieldType, items[k]) \in ResultSecondarySet

(* C16: the result's secondary collection is the candidate pool in pool    *)
(* order, after keeping the first occurrence of each identity and removing *)
(* the entry equal to the result primary, with no other reordering.        *)
C16_SecondaryIsPoolInOrder ==
    ReturnedComposite =>
        [k \in 1..Len(DeduplicatedPoolWithoutPrimary) |->
            Identity(fieldType, DeduplicatedPoolWithoutPrimary[k])]
            = ResultSecondaryIdentities

(* C17: the result's secondary collection is null exactly when the         *)
(* deduplicated pool minus the chosen primary is empty, a non-empty        *)
(* sequence otherwise, and never an empty sequence.                        *)
C17_SecondaryIsNullOrNonEmpty ==
    ReturnedComposite =>
        LET secondary == Secondary(fieldType, outcome.value)
        IN  /\ secondary.kind \in {"null", "array"}
            /\ secondary.kind = "null" <=> DeduplicatedPoolWithoutPrimary = <<>>
            /\ secondary.kind = "array" => Len(secondary.items) > 0

(* C18: on every records sequence and priority id the two versions of      *)
(* mergeLinksFieldValues, exclude-while-collecting then deduplicate and    *)
(* collect-all then deduplicate then exclude, return equal results: same   *)
(* primary url and label, same secondaryLinks with the same labels in the  *)
(* same order, or null.                                                    *)
C18_LinksVersionsAgree ==
    (Called /\ fieldType = "LINKS") =>
        /\ outcome = mergeLinksFieldValues(recordsWithValues, priorityRecordId)
        /\ outcome = mergeLinksFieldValuesExcludeWhileCollecting(recordsWithValues,
                                                                 priorityRecordId)

(* The exclude-while-collecting version has run on two records: the chosen *)
(* primary url, taken from the second record, is stored by the first       *)
(* record among its secondary links next to another url that is kept.      *)
C18_Witness ==
    /\ merger = "mergeLinksFieldValuesExcludeWhileCollecting"
    /\ NumRecords = 2
    /\ PriorityPositions = {2}
    /\ Present(InputPrimaryIdentity(2))
    /\ InputPrimaryIdentity(2) \in NativeSecondarySet(1)
    /\ outcome.status = "returned"
    /\ ResultPrimaryIdentity = InputPrimaryIdentity(2)
    /\ ResultSecondarySet # {}

(* Identities of the units of the candidate pool.                          *)
PoolIdentities ==
    LET pool == CandidatePool(fieldType, recordsWithValues)
    IN  {Identity(fieldType, pool[k]) : k \in 1..Len(pool)}

(* C19: a composite merge introduces nothing and promotes no secondary     *)
(* unit: the result's primary identity is empty or some record's present   *)
(* primary identity, every unit of the result's secondary collection has a *)
(* present identity occurring as a primary or secondary unit of some       *)
(* record, and when no record has a present primary but some secondary     *)
(* unit is present the result has an empty primary with a non-empty        *)
(* secondary collection.                                                   *)
C19_NothingIntroducedNothingPromoted ==
    ReturnedComposite =>
        /\ \/ ResultPrimaryIdentity = ""
           \/ \E i \in PresentPrimaryPositions :
                 InputPrimaryIdentity(i) = ResultPrimaryIdentity
        /\ \A id \in ResultSecondarySet : Present(id) /\ id \in PoolIdentities
        /\ (/\ PresentPrimaryPositions = {}
            /\ PresentSecondaryUnits(fieldType, recordsWithValues) # <<>>) =>
              /\ ResultPrimaryIdentity = ""
              /\ Secondary(fieldType, outcome.value).kind = "array"
              /\ ResultSecondarySet # {}

(* The record whose primary slot the merge adopts: the priority record     *)
(* when its primary is present, else the first record with a present       *)
(* primary.                                                                *)
ChosenPosition ==
    IF \E i \in PriorityPositions : Present(InputPrimaryIdentity(i))
    THEN CHOOSE i \in PriorityPositions : Present(InputPrimaryIdentity(i))
    ELSE CHOOSE i \in PresentPrimaryPositions : \A j \in PresentPrimaryPositions : i <= j

(* The first unit of the candidate pool with the given identity.           *)
FirstInPool(id) ==
    LET pool == CandidatePool(fieldType, recordsWithValues)
        at == {k \in 1..Len(pool) : Identity(fieldType, pool[k]) = id}
    IN  pool[CHOOSE k \in at : \A l \in at : k <= l]

(* C20: every unit kept in the secondary collection of a links or phones   *)
(* result carries the attributes (label; country and calling code) of the  *)
(* first occurrence of its identity in pool order, and the result's        *)
(* primary carries the attributes of the chosen record's primary slot,     *)
(* also when its identity occurs earlier in the pool with others.          *)
C20_AttributesOfFirstOccurrence ==
    (outcome.status = "returned" /\ fieldType \in {"LINKS", "PHONES"}) =>
        /\ \A k \in 1..Len(Secondary(fieldType, outcome.value).items) :
              LET unit == Secondary(fieldType, outcome.value).items[k]
              IN  /\ Identity(fieldType, unit) \in PoolIdentities
                  /\ unit = FirstInPool(Identity(fieldType, unit))
        /\ PresentPrimaryPositions # {} =>
              PrimaryUnit(fieldType, outcome.value)
                  = PrimaryUnit(fieldType, recordsWithValues[ChosenPosition].value)

(* The instant syncStageStartedAt + throttleDuration * 2^(count - 1).      *)
PauseUntil(failureCount) ==
    Plus(getTime(syncStageStartedAt),
         TimesPowerOfTwo(Instant(0, throttleDuration), failureCount))

(* C21: isThrottled returns false when syncStageStartedAt is null or       *)
(* empty, and otherwise true exactly when the current time is strictly     *)
(* before syncStageStartedAt + throttleDuration * 2^(count - 1); so for    *)
(* the same start, duration and current time, being throttled at a count   *)
(* n >= 1 implies being throttled at every larger count.                   *)
C21_ThrottledIffBeforePauseUntil ==
    throttled.status = "returned" =>
        /\ syncStageStartedAt.kind \in {"null", "empty"} => throttled.value = FALSE
        /\ syncStageStartedAt.kind = "date" =>
              (throttled.value <=> Before(now, PauseUntil(throttleFailureCount)))
        /\ (/\ syncStageStartedAt.kind = "date"
            /\ throttleFailureCount >= 1
            /\ throttled.value) =>
              \A larger \in throttleFailureCount..MaxFailureCount :
                  isThrottled(syncStageStartedAt, larger, throttleDuration)

====
